---- MODULE Spec2Model ----
(***************************************************************************)
(* A model of scripts/duke_netnutrition_scraper.py: the HTML tree builder  *)
(* (HTMLTreeBuilder), the node query helpers (HTMLNode) and the menu       *)
(* table walk (MenuParser).                                                *)
(*                                                                         *)
(* Strings of the program are modelled as sequences of one-character       *)
(* strings, so that concatenation, splitting and order are computed.       *)
(* Nodes live in the sequence `nodes`; a node reference is its index and   *)
(* None (0) is Python's None.                                              *)
(***************************************************************************)
EXTENDS Integers, Sequences, FiniteSets, TLC

VARIABLES nodes, stack, lastEvent, prevStack, dataLog,
          menuPc, rowsSeen, categories, current_category, lookupCalls,
          parsePc, fed, hasRef, refEvents, refTree, sinceRef,
          lastQuery, lastResult, refQuery, refResult, askedSince,
          labelPc, nutrient_rows, rowIdx, nutrients, labelResult,
          normPc, normInput, normOnce, normTwice,
          nutrition_cache, sleeps, requests, parses, lastFetch,
          runPc, unitIdx, mealIdx, unitPanel, mealHtmls, seen_hashes,
          meal_sections, aggregated,
          mealPc, mealInput, linkIdx, seen, options

builderVars == <<nodes, stack, lastEvent, prevStack, dataLog>>
menuVars == <<menuPc, rowsSeen, categories, current_category, lookupCalls>>
parseVars == <<parsePc, fed, hasRef, refEvents, refTree, sinceRef>>
queryVars == <<lastQuery, lastResult, refQuery, refResult, askedSince>>
labelVars == <<labelPc, nutrient_rows, rowIdx, nutrients, labelResult>>
normVars == <<normPc, normInput, normOnce, normTwice>>
cacheVars == <<nutrition_cache, sleeps, requests, parses, lastFetch>>
runVars == <<runPc, unitIdx, mealIdx, unitPanel, mealHtmls, seen_hashes,
             meal_sections, aggregated>>
mealVars == <<mealPc, mealInput, linkIdx, seen, options>>
otherVars == <<parseVars, queryVars, labelVars, normVars, cacheVars, runVars, mealVars>>
vars == <<builderVars, menuVars, otherVars>>

(***************************************************************************)
(* Bounds of the model.                                                    *)
(***************************************************************************)
MaxNodes == 3
MaxTextParts == 2
MaxRows == 4
MaxFeed == 3
MaxLaterCalls == 2
MaxLabelRows == 2
MaxLabelLen == 3
MaxDetailIds == 2
MaxFailures == 2
MaxMeals == 2
MaxLinks == 3

(***************************************************************************)
(* Constants of the program.                                               *)
(***************************************************************************)
None == 0

\* Python's None as an attribute value (an attribute written without a
\* value): a one-element sequence that is no string of characters
NoValue == <<"None">>

\* the members of VOID_TAGS; the model's markup uses br of them
VOID_TAGS == {"area", "base", "br", "col", "embed", "hr", "img", "input",
              "link", "meta", "param", "source", "track", "wbr"}

\* tag names of the modelled markup: two ordinary elements and one void one
StartTagNames == {"div", "span", "br"}

\* end tags may also name the root's sentinel tag
EndTagNames == StartTagNames \cup {"document"}

\* attribute lists as HTMLParser hands them over: (name, value) pairs
AttrLists == { <<>>, << <<"class", NoValue>>, <<"id", <<"x">> >> >> }

\* text chunks handed to handle_data: the empty chunk, or a chunk of one
\* letter.  The chunks of one input are told apart by their letters: the
\* k-th non-empty chunk is the k-th letter.
Letters == <<"a", "b", "c", "d", "e", "f">>
DataChunks(k) == { <<>>, <<Letters[k]>> }

Range(seq) == {seq[i] : i \in 1..Len(seq)}

(***************************************************************************)
(* HTMLNode                                                                *)
(***************************************************************************)
\* HTMLNode.__init__
NewNode(tag, attrs, parent) ==
    [tag |-> tag, attrs |-> attrs, parent |-> parent,
     children |-> <<>>, text_parts |-> <<>>]

\* "".join(parts) for a sequence of strings
RECURSIVE Join(_)
Join(parts) ==
    IF parts = <<>> THEN <<>> ELSE Head(parts) \o Join(Tail(parts))

IsSpace(ch) == ch \in {" ", "\t", "\n"}

\* " ".join(s.split()): the words of s, separated by single spaces
RECURSIVE SplitJoin(_, _, _)
SplitJoin(s, word, out) ==
    LET flush == IF word = <<>> THEN out
                 ELSE IF out = <<>> THEN word ELSE out \o <<" ">> \o word
    IN  IF s = <<>> THEN flush
        ELSE IF IsSpace(Head(s)) THEN SplitJoin(Tail(s), <<>>, flush)
        ELSE SplitJoin(Tail(s), Append(word, Head(s)), out)

\* HTMLNode.text: the node's own parts first, then each child's text(False)
RECURSIVE TextOf(_, _, _)
TextOf(ns, n, strip) ==
    LET parts == ns[n].text_parts \o
                 [i \in 1..Len(ns[n].children) |-> TextOf(ns, ns[n].children[i], FALSE)]
        combined == Join(parts)
    IN  IF strip THEN SplitJoin(combined, <<>>, <<>>) ELSE combined

\* HTMLNode.iter: yield self, then each child's iter()
RECURSIVE IterFrom(_, _)
RECURSIVE IterChildren(_, _, _)
\* (mutant of IterFrom: the children's subtrees first, the node itself last)
IterFromPostOrder(ns, n) == IterChildren(ns, ns[n].children, 1) \o <<n>>
IterFrom(ns, n) == <<n>> \o IterChildren(ns, ns[n].children, 1)
IterChildren(ns, ch, i) ==
    IF i > Len(ch) THEN <<>>
    ELSE IterFrom(ns, ch[i]) \o IterChildren(ns, ch, i + 1)

(***************************************************************************)
(* HTMLNode.class_list                                                     *)
(*                                                                         *)
(* A class attribute is modelled as a sequence of pieces, each a class     *)
(* token or one separator character.                                       *)
(***************************************************************************)
\* klass.replace(",", " ").split(): the tokens between commas and spaces
ClassList(klass) ==
    LET spaced == [i \in 1..Len(klass) |-> IF klass[i] = "," THEN " " ELSE klass[i]]
    IN  SelectSeq(spaced, LAMBDA piece : piece # " ")

\* node.class_list()
ClassListOf(node) ==
    ClassList(IF "class" \in DOMAIN node.attrs THEN node.attrs["class"] ELSE <<>>)

\* the two class tokens of the nutrient rows of a label
NutrientRowClasses == {"cbo_nn_LabelBorderedSubHeader", "cbo_nn_LabelNoBorderSubHeader"}

\* the class tokens the predicates of NutritionParser.parse test for with
\* "<token>" in node.class_list(); such a predicate is named by its token
ClassPredicates == {"inline-div-left", "inline-div-right",
                    "cbo_nn_LabelBottomBorderLabel", "cbo_nn_LabelSubHeader",
                    "cbo_nn_Label_IngredientsTable"}

\* The predicates callers pass to find_all / find_first, by name.  NoPredicate
\* is predicate=None; the others are:
\*   "id_x"     lambda node: node.attrs.get("id") == "x"   (find_node_by_id)
\*   "has_text" a predicate on the node's own text parts
\*   "never"    a predicate no node satisfies
\*   "id_nutritionLabel", "nutrient_row", "font" and the ClassPredicates are
\*   the lambdas of NutritionParser.parse
NoPredicate == "None"
Predicates == {NoPredicate, "id_x", "has_text", "never"}

ApplyPredicate(pred, node) ==
    CASE pred = "id_x" -> "id" \in DOMAIN node.attrs /\ node.attrs["id"] = <<"x">>
      [] pred = "has_text" -> node.text_parts # <<>>
      [] pred = "id_nutritionLabel" ->
            "id" \in DOMAIN node.attrs /\ node.attrs["id"] = <<"nutritionLabel">>
      [] pred = "nutrient_row" ->
            \E klass \in Range(ClassListOf(node)) : klass \in NutrientRowClasses
      [] pred = "font" ->
            "font-22" \in Range(ClassListOf(node)) \/ "font-21" \in Range(ClassListOf(node))
      [] pred \in ClassPredicates -> pred \in Range(ClassListOf(node))
      [] OTHER -> FALSE

\* tag=None (or ""): no tag filter
NoTag == ""
TagFilters == {NoTag, "div", "span", "br"}

\* the two `continue` tests shared by find_all and find_first
Skipped(node, tag, pred) ==
    \/ tag # NoTag /\ node.tag # tag
    \/ pred # NoPredicate /\ ~ApplyPredicate(pred, node)

\* HTMLNode.find_all: the loop over self.iter(), from position i on
RECURSIVE FindAllLoop(_, _, _, _, _, _)
FindAllLoop(ns, it, i, tag, pred, matches) ==
    IF i > Len(it) THEN matches
    ELSE IF Skipped(ns[it[i]], tag, pred)
         THEN FindAllLoop(ns, it, i + 1, tag, pred, matches)
         ELSE FindAllLoop(ns, it, i + 1, tag, pred, Append(matches, it[i]))

FindAll(ns, n, tag, pred) == FindAllLoop(ns, IterFrom(ns, n), 1, tag, pred, <<>>)

\* HTMLNode.find_first: the same loop, returning at the first node not skipped
RECURSIVE FindFirstLoop(_, _, _, _, _)
FindFirstLoop(ns, it, i, tag, pred) ==
    IF i > Len(it) THEN None
    ELSE IF Skipped(ns[it[i]], tag, pred)
         THEN FindFirstLoop(ns, it, i + 1, tag, pred)
         ELSE it[i]

FindFirst(ns, n, tag, pred) == FindFirstLoop(ns, IterFrom(ns, n), 1, tag, pred)

(***************************************************************************)
(* HTMLTreeBuilder                                                         *)
(***************************************************************************)
\* attrs_dict = {name: (value or "") for name, value in attrs}
AttrsDict(attrs) ==
    [name \in {attrs[i][1] : i \in 1..Len(attrs)} |->
        LET last == CHOOSE i \in 1..Len(attrs) :
                        /\ attrs[i][1] = name
                        /\ \A j \in 1..Len(attrs) : attrs[j][1] = name => j <= i
        IN  IF attrs[last][2] = NoValue THEN <<>> ELSE attrs[last][2]]

\* (mutant of StartNodes: the new node is hung under the root, whatever is open)
StartNodesUnderRoot(ns, stk, tag, attrs) ==
    [Append(ns, NewNode(tag, AttrsDict(attrs), stk[Len(stk)]))
        EXCEPT ![1].children = Append(@, Len(ns) + 1)]

\* handle_starttag, the tree: a new node under the top of the stack
StartNodes(ns, stk, tag, attrs) ==
    LET parent == stk[Len(stk)]
        node == Len(ns) + 1
    IN  [Append(ns, NewNode(tag, AttrsDict(attrs), parent))
            EXCEPT ![parent].children = Append(@, node)]

\* (mutant of StartStack: void elements are pushed like any other)
StartStackAlwaysPush(ns, stk, tag) == Append(stk, Len(ns) + 1)

\* (mutant of StartStack: the new node is pushed twice)
StartStackPushTwice(ns, stk, tag) ==
    IF tag \notin VOID_TAGS THEN stk \o <<Len(ns) + 1, Len(ns) + 1>> ELSE stk

\* handle_starttag, the stack: push unless the tag is void
StartStack(ns, stk, tag) ==
    IF tag \notin VOID_TAGS THEN Append(stk, Len(ns) + 1) ELSE stk

\* (mutant of EndTagMatch: the loop runs down to index 0 and so examines the root)
RECURSIVE EndTagMatchIncludingRoot(_, _, _, _)
EndTagMatchIncludingRoot(ns, stk, tag, pos) ==
    IF pos < 1 THEN 0
    ELSE IF ns[stk[pos]].tag = tag THEN pos
    ELSE EndTagMatchIncludingRoot(ns, stk, tag, pos - 1)

\* handle_endtag's loop: for idx in range(len(stack) - 1, 0, -1), as the
\* 1-based position of the first match from the top, 0 when none matches
\* (position 1, the root, is never examined)
RECURSIVE EndTagMatch(_, _, _, _)
EndTagMatch(ns, stk, tag, pos) ==
    IF pos < 2 THEN 0
    ELSE IF ns[stk[pos]].tag = tag THEN pos
    ELSE EndTagMatch(ns, stk, tag, pos - 1)

\* (mutant of EndStack: only the matching element is dropped, what was
\* opened inside it stays open)
EndStackRemoveOnlyMatch(ns, stk, tag) ==
    LET pos == EndTagMatch(ns, stk, tag, Len(stk))
    IN  IF pos = 0 THEN stk
        ELSE SubSeq(stk, 1, pos - 1) \o SubSeq(stk, pos + 1, Len(stk))

\* (mutant of EndStack: an end tag that matches nothing pops the innermost
\* open element)
EndStackPopWhenUnmatched(ns, stk, tag) ==
    LET pos == EndTagMatch(ns, stk, tag, Len(stk))
    IN  IF pos = 0
        THEN (IF Len(stk) > 1 THEN SubSeq(stk, 1, Len(stk) - 1) ELSE stk)
        ELSE SubSeq(stk, 1, pos - 1)

\* handle_endtag: self._stack = self._stack[:idx]
EndStack(ns, stk, tag) ==
    LET pos == EndTagMatch(ns, stk, tag, Len(stk))
    IN  IF pos = 0 THEN stk ELSE SubSeq(stk, 1, pos - 1)

\* (mutant of DataNodes: the text is added to the root, whatever is open)
DataNodesToRoot(ns, stk, data) ==
    IF data = <<>> THEN ns
    ELSE [ns EXCEPT ![stk[1]].text_parts = Append(@, data)]

\* handle_data: nothing for empty data, else add_text on the top of the stack
DataNodes(ns, stk, data) ==
    IF data = <<>> THEN ns
    ELSE [ns EXCEPT ![stk[Len(stk)]].text_parts = Append(@, data)]

Event(kind, tag) == [kind |-> kind, tag |-> tag]

TextPartCount(ns) ==
    LET RECURSIVE Sum(_)
        Sum(i) == IF i = 0 THEN 0 ELSE Len(ns[i].text_parts) + Sum(i - 1)
    IN  Sum(Len(ns))

\* The handlers change the builder's own state, nodes and stack.
HandleStartTag(tag, attrs) ==
    /\ Len(nodes) < MaxNodes
    /\ nodes' = StartNodes(nodes, stack, tag, attrs)
    /\ stack' = StartStack(nodes, stack, tag)

HandleEndTag(tag) ==
    /\ stack' = EndStack(nodes, stack, tag)
    /\ UNCHANGED nodes

\* (mutant of HandleStartEndTag: the end tag is not handled)
HandleStartEndTagStartOnly(tag, attrs) ==
    /\ Len(nodes) < MaxNodes
    /\ nodes' = StartNodes(nodes, stack, tag, attrs)
    /\ stack' = StartStack(nodes, stack, tag)

\* handle_startendtag: handle_starttag, then handle_endtag on its result
HandleStartEndTag(tag, attrs) ==
    /\ Len(nodes) < MaxNodes
    /\ nodes' = StartNodes(nodes, stack, tag, attrs)
    /\ stack' = EndStack(StartNodes(nodes, stack, tag, attrs),
                         StartStack(nodes, stack, tag), tag)

HandleData(data) ==
    /\ data # <<>> => TextPartCount(nodes) < MaxTextParts
    /\ nodes' = DataNodes(nodes, stack, data)
    /\ UNCHANGED stack

\* The record of the run, kept beside the builder's state: lastEvent is the
\* handler that ran last with its tag, prevStack is self._stack as that
\* handler found it, and dataLog lists the non-empty text events in the
\* order they arrived, each with the element that was open (the top of the
\* stack) when it arrived.
Recorded(kind, tag, data) ==
    /\ lastEvent' = Event(kind, tag)
    /\ prevStack' = stack
    /\ dataLog' = IF data = <<>> THEN dataLog
                  ELSE Append(dataLog, [node |-> stack[Len(stack)], data |-> data])

\* HTMLTreeBuilder.__init__
BuilderInit ==
    /\ nodes = << NewNode("document", AttrsDict(<<>>), None) >>
    /\ stack = <<1>>
    /\ lastEvent = Event("init", "")
    /\ prevStack = <<1>>
    /\ dataLog = <<>>

(***************************************************************************)
(* MenuParser                                                              *)
(*                                                                         *)
(* A row of the table (a tr node of table.find_all(tag="tr")) is modelled  *)
(* by what parse and _parse_item_row read from it:                         *)
(*   class    its class attribute                                          *)
(*   title    the text of row.find_first(tag="div"), NoValue without a div *)
(*   detail   the data-detailoid value of the first node of the row with a *)
(*            non-empty one, NoValue when the row has no such node         *)
(*   cells    the number of td children of the row                         *)
(*   name     the item name read from cells[1]                             *)
(***************************************************************************)
GroupRowClass == "cbo_nn_itemGroupRow"
ItemRowClasses == {"cbo_nn_itemPrimaryRow", "cbo_nn_itemAlternateRow"}
UntitledCategory == <<"Untitled Category">>

\* the least number of td cells of an item row: len(cells) < 4 drops it
MinCells == 4

Row(klass, title, detail, cells, name) ==
    [class |-> klass, title |-> title, detail |-> detail, cells |-> cells, name |-> name]

Rows == {
    Row(<<"cbo_nn_itemGroupRow">>, <<"E">>, NoValue, 1, <<>>),
    Row(<<"cbo_nn_itemGroupRow">>, NoValue, NoValue, 0, <<>>),
    Row(<<"cbo_nn_itemGroupRow", " ", "cbo_nn_itemPrimaryRow">>, <<"S">>, <<"5">>, 4, <<"s">>),
    Row(<<"cbo_nn_itemPrimaryRow">>, NoValue, <<"7">>, 4, <<"p">>),
    Row(<<"striped", ",", "cbo_nn_itemAlternateRow">>, NoValue, <<"1", "2">>, 5, <<"q">>),
    Row(<<"cbo_nn_itemPrimaryRow">>, NoValue, <<"7", "b">>, 4, <<"r">>),
    Row(<<"cbo_nn_itemAlternateRow">>, NoValue, NoValue, 4, <<"t">>),
    Row(<<"cbo_nn_itemAlternateRow">>, NoValue, <<"9">>, 3, <<"u">>),
    Row(<<"spacer">>, NoValue, <<"7">>, 4, <<"v">>) }

\* int(text) for the texts of the model: the value of a run of decimal
\* digits, or ValueError
Digits == <<"0", "1", "2", "3", "4", "5", "6", "7", "8", "9">>
IsDigit(ch) == \E d \in 1..Len(Digits) : Digits[d] = ch
DigitValue(ch) == (CHOOSE d \in 1..Len(Digits) : Digits[d] = ch) - 1

RECURSIVE DecimalValue(_, _)
DecimalValue(text, acc) ==
    IF text = <<>> THEN acc
    ELSE DecimalValue(Tail(text), 10 * acc + DigitValue(Head(text)))

IntOf(text) ==
    IF text # <<>> /\ \A i \in 1..Len(text) : IsDigit(text[i])
    THEN [error |-> FALSE, value |-> DecimalValue(text, 0)]
    ELSE [error |-> TRUE, value |-> 0]

\* detail_id after lines 404-410: an integer (is_none false), or None, or
\* the ValueError leaving the function (raised)
DetailIdOf(is_none, value, raised) ==
    [is_none |-> is_none, value |-> value, raised |-> raised]

\* (mutant of DetailId: the ValueError of int() is not caught)
DetailIdUncaught(row) ==
    IF row.detail = NoValue THEN DetailIdOf(TRUE, 0, FALSE)
    ELSE IF IntOf(row.detail).error THEN DetailIdOf(TRUE, 0, TRUE)
    ELSE DetailIdOf(FALSE, IntOf(row.detail).value, FALSE)

\* _parse_item_row, lines 404-410: the id of the row, None when no node
\* carries one or when int() raises ValueError, which is caught
DetailId(row) ==
    IF row.detail = NoValue THEN DetailIdOf(TRUE, 0, FALSE)
    ELSE IF IntOf(row.detail).error THEN DetailIdOf(TRUE, 0, FALSE)
    ELSE DetailIdOf(FALSE, IntOf(row.detail).value, FALSE)

\* what the injected nutrition_loader returns for an id
NutritionLoader(id) == [nutrition_of |-> id]

\* the outcome of _parse_item_row: the item it returns (<<item>>, or <<>>
\* for None), the ids it passed to nutrition_loader, and whether it raised
Outcome(item, calls, raised) == [item |-> item, calls |-> calls, raised |-> raised]

Item(detail_id, row) ==
    [detail_id |-> detail_id, name |-> row.name, nutrition |-> NutritionLoader(detail_id)]

\* (mutant of ParseItemRow: the nutrition is loaded before the cells are counted)
ParseItemRowLoadsFirst(row) ==
    LET detail_id == DetailId(row)
    IN  IF detail_id.raised THEN Outcome(<<>>, <<>>, TRUE)
        ELSE IF detail_id.is_none THEN Outcome(<<>>, <<>>, FALSE)
        ELSE IF row.cells < MinCells THEN Outcome(<<>>, <<detail_id.value>>, FALSE)
        ELSE Outcome(<<Item(detail_id.value, row)>>, <<detail_id.value>>, FALSE)

\* MenuParser._parse_item_row: None without a detail id, None with fewer
\* than four cells, else the item with the loader's record embedded
ParseItemRow(row) ==
    LET detail_id == DetailId(row)
    IN  IF detail_id.raised THEN Outcome(<<>>, <<>>, TRUE)
        ELSE IF detail_id.is_none THEN Outcome(<<>>, <<>>, FALSE)
        ELSE IF row.cells < MinCells THEN Outcome(<<>>, <<>>, FALSE)
        ELSE Outcome(<<Item(detail_id.value, row)>>, <<detail_id.value>>, FALSE)

\* the state of the loop of MenuParser.parse; current is the position in
\* categories of the dict current_category refers to, None before the first
Loop(cats, current, calls, raised) ==
    [categories |-> cats, current |-> current, calls |-> calls, raised |-> raised]

\* lines 391-394: a header row opens a category and makes it current
HeaderRow(st, row) ==
    LET name == IF row.title # NoValue THEN row.title ELSE UntitledCategory
    IN  Loop(Append(st.categories, [name |-> name, items |-> <<>>]),
             Len(st.categories) + 1, st.calls, st.raised)

\* (mutant of AppendItem: the item goes to the first category of the result)
AppendItemToFirst(cats, current, item) ==
    [cats EXCEPT ![1].items = Append(@, item)]

\* current_category["items"].append(item)
AppendItem(cats, current, item) ==
    [cats EXCEPT ![current].items = Append(@, item)]

\* (mutant of ItemRow: an item row met before any header opens a category
\* of its own)
ItemRowOpensCategory(st, row) ==
    LET out == ParseItemRow(row)
        cats == IF st.current = None
                THEN <<[name |-> UntitledCategory, items |-> <<>>]>>
                ELSE st.categories
        cur == IF st.current = None THEN 1 ELSE st.current
    IN  IF out.raised THEN Loop(st.categories, st.current, st.calls, TRUE)
        ELSE IF out.item = <<>> THEN Loop(cats, cur, st.calls \o out.calls, FALSE)
        ELSE Loop(AppendItem(cats, cur, out.item[1]), cur, st.calls \o out.calls, FALSE)

\* lines 396-400: an item row is skipped while there is no category, else
\* parsed and, when an item comes back, appended to the current category
ItemRow(st, row) ==
    IF st.current = None THEN st
    ELSE LET out == ParseItemRow(row)
         IN  IF out.raised THEN Loop(st.categories, st.current, st.calls, TRUE)
             ELSE IF out.item = <<>>
                  THEN Loop(st.categories, st.current, st.calls \o out.calls, FALSE)
                  ELSE Loop(AppendItem(st.categories, st.current, out.item[1]),
                            st.current, st.calls \o out.calls, FALSE)

\* the body of the loop over the rows, lines 389-400
RowStep(st, row) ==
    LET classes == Range(ClassList(row.class))
    IN  IF GroupRowClass \in classes THEN HeaderRow(st, row)
        ELSE IF classes \cap ItemRowClasses # {} THEN ItemRow(st, row)
        ELSE st

\* parse, lines 380-383: no table in the markup, return []
MenuNoTable ==
    /\ menuPc = "start"
    /\ menuPc' = "done"
    /\ UNCHANGED <<rowsSeen, categories, current_category, lookupCalls>>

\* parse, lines 381-386: the first table is found, the loop starts
MenuTableFound ==
    /\ menuPc = "start"
    /\ menuPc' = "rows"
    /\ categories' = <<>>
    /\ current_category' = None
    /\ UNCHANGED <<rowsSeen, lookupCalls>>

\* one turn of the loop, on the next tr of the table; rowsSeen lists the
\* rows met so far and lookupCalls the ids passed to nutrition_loader
ParseRow(row) ==
    /\ menuPc = "rows"
    /\ Len(rowsSeen) < MaxRows
    /\ LET st == RowStep(Loop(categories, current_category, lookupCalls, FALSE), row)
       IN  /\ categories' = st.categories
           /\ current_category' = st.current
           /\ lookupCalls' = st.calls
           /\ menuPc' = IF st.raised THEN "raised" ELSE "rows"
    /\ rowsSeen' = Append(rowsSeen, row)

\* line 401: the rows are exhausted, return categories
MenuReturn ==
    /\ menuPc = "rows"
    /\ menuPc' = "done"
    /\ UNCHANGED <<rowsSeen, categories, current_category, lookupCalls>>

\* before MenuParser.parse is called
MenuIdle ==
    /\ menuPc = "start"
    /\ rowsSeen = <<>>
    /\ categories = <<>>
    /\ current_category = None
    /\ lookupCalls = <<>>

(***************************************************************************)
(* parse_html: a new HTMLTreeBuilder per call, the events of the input fed *)
(* to it, and its root returned.  `nodes` and `stack` are the state of the *)
(* builder of the call in progress; `fed` is what the call has been fed.   *)
(* A returned tree may be kept as a reference (refEvents, refTree) to      *)
(* compare later calls with.                                               *)
(***************************************************************************)
\* the events of the modelled inputs of parse_html
ParseEvents ==
    { [kind |-> "start", tag |-> "div",
       attrs |-> << <<"class", <<"a", ",", "b">> >> >>, data |-> <<>>],
      [kind |-> "end", tag |-> "div", attrs |-> <<>>, data |-> <<>>],
      [kind |-> "startend", tag |-> "br", attrs |-> <<>>, data |-> <<>>],
      [kind |-> "data", tag |-> "", attrs |-> <<>>, data |-> <<"a">>] }

\* (mutant of NewBuilderNodes: the nodes are shared by all builders, as a
\* root kept in a class attribute would be)
NewBuilderNodesShared(old) == old

\* HTMLTreeBuilder.__init__: self.root = HTMLNode("document", {}), whatever
\* nodes earlier builders made
NewBuilderNodes(old) == <<NewNode("document", AttrsDict(<<>>), None)>>

\* HTMLTreeBuilder.__init__: self.stack = [self.root]
NewBuilderStack(old) == <<1>>

\* no query has been made
QueryIdle ==
    /\ lastQuery = [kind |-> "none", node |-> None]
    /\ lastResult = <<>>
    /\ refQuery = [kind |-> "none", node |-> None]
    /\ refResult = <<>>
    /\ askedSince = 0

\* parse_html: builder = HTMLTreeBuilder()
ParseBegin ==
    /\ parsePc # "feeding"
    /\ parsePc' = "feeding"
    /\ fed' = <<>>
    /\ nodes' = NewBuilderNodes(nodes)
    /\ stack' = NewBuilderStack(stack)
    /\ sinceRef' = IF hasRef /\ sinceRef < MaxLaterCalls THEN sinceRef + 1 ELSE sinceRef
    /\ UNCHANGED <<hasRef, refEvents, refTree>>

\* parse_html: builder.feed(html), one event of the input at a time
ParseFeed(e) ==
    /\ parsePc = "feeding"
    /\ Len(fed) < MaxFeed
    /\ fed' = Append(fed, e)
    /\ CASE e.kind = "start" -> HandleStartTag(e.tag, e.attrs)
         [] e.kind = "end" -> HandleEndTag(e.tag)
         [] e.kind = "startend" -> HandleStartEndTag(e.tag, e.attrs)
         [] e.kind = "data" -> HandleData(e.data)
    /\ UNCHANGED <<parsePc, hasRef, refEvents, refTree, sinceRef>>

\* parse_html: return builder.root.  The caller may keep
\* the returned tree of one call; sinceRef counts the calls begun since.
ParseReturn(keep) ==
    /\ parsePc = "feeding"
    /\ keep => ~hasRef
    /\ parsePc' = "returned"
    /\ hasRef' = (hasRef \/ keep)
    /\ refEvents' = IF keep THEN fed ELSE refEvents
    /\ refTree' = IF keep THEN nodes ELSE refTree
    /\ UNCHANGED <<nodes, stack, fed, sinceRef>>

ParseIdle ==
    /\ parsePc = "idle"
    /\ fed = <<>>
    /\ hasRef = FALSE
    /\ refEvents = <<>>
    /\ refTree = <<>>
    /\ sinceRef = 0

(***************************************************************************)
(* The query operations of HTMLNode, called on the nodes of a returned     *)
(* tree.  A call has a result and an effect on the nodes; one query and    *)
(* its result may be kept as a reference (refQuery, refResult), and        *)
(* askedSince counts the queries made since.                               *)
(***************************************************************************)
\* the modelled calls, per node: text(), class_list(), list(iter()),
\* find_all(tag="div") and find_first(predicate=has_text)
QueryKinds == {"text", "class_list", "iter", "find_all", "find_first"}

Queries(ns) == [kind : QueryKinds, node : 1..Len(ns)]

\* (mutant of TextNodes: parts = self.text_parts, so that the children's
\* text is appended to the node's own list)
TextNodesAliased(ns, n) ==
    [ns EXCEPT ![n].text_parts =
        @ \o [i \in 1..Len(ns[n].children) |-> TextOf(ns, ns[n].children[i], FALSE)]]

\* HTMLNode.text, the nodes after the call: parts = list(self.text_parts)
\* is a copy, and the appends go to the copy
TextNodes(ns, n) == ns

\* the nodes after a query: class_list, iter, find_all and find_first
\* assign to locals only
QueryNodes(ns, q) ==
    IF q.kind = "text" THEN TextNodes(ns, q.node) ELSE ns

\* what a query returns, as a sequence: the characters of text(), the
\* tokens of class_list(), the nodes of iter() and find_all(), and for
\* find_first the node found, if any
QueryResult(ns, q) ==
    CASE q.kind = "text" -> TextOf(ns, q.node, TRUE)
      [] q.kind = "class_list" ->
            ClassListOf(ns[q.node])
      [] q.kind = "iter" -> IterFrom(ns, q.node)
      [] q.kind = "find_all" -> FindAll(ns, q.node, "div", NoPredicate)
      [] q.kind = "find_first" ->
            LET found == FindFirst(ns, q.node, NoTag, "has_text")
            IN  IF found = None THEN <<>> ELSE <<found>>

Query(q, keep) ==
    /\ parsePc = "returned"
    /\ keep => refQuery.kind = "none"
    /\ nodes' = QueryNodes(nodes, q)
    /\ lastQuery' = q
    /\ lastResult' = QueryResult(nodes, q)
    /\ refQuery' = IF keep THEN q ELSE refQuery
    /\ refResult' = IF keep THEN QueryResult(nodes, q) ELSE refResult
    /\ askedSince' = IF refQuery.kind # "none" /\ askedSince < MaxLaterCalls
                     THEN askedSince + 1 ELSE askedSince
    /\ UNCHANGED <<stack, parseVars>>

\* a new call of parse_html: the queries go to its tree from then on
QueryForget ==
    /\ lastQuery' = [kind |-> "none", node |-> None]
    /\ lastResult' = <<>>
    /\ refQuery' = [kind |-> "none", node |-> None]
    /\ refResult' = <<>>
    /\ askedSince' = 0

(***************************************************************************)
(* NutritionParser.parse                                                   *)
(*                                                                         *)
(* The label fragments of the model are described by                       *)
(*   container  whether the fragment has the element with id               *)
(*              "nutritionLabel" (else its content hangs in a plain div)   *)
(*   extras     whether it holds a servings block, a calories block and an *)
(*              ingredients table                                          *)
(*   rows       its nutrient-row divs, each with or without a left block,  *)
(*              with 0 to 2 span children of the left block, and with or   *)
(*              without a right block; the rows carry the bordered and the *)
(*              non-bordered class token in turn                           *)
(* and LabelTree builds the tree parse_html returns for such a fragment.   *)
(***************************************************************************)
RowKinds ==
    {k \in [left : BOOLEAN, spans : 0..2, right : BOOLEAN] : ~k.left => k.spans = 0}

RECURSIVE SeqsUpTo(_, _)
SeqsUpTo(S, n) ==
    IF n = 0 THEN {<<>>}
    ELSE SeqsUpTo(S, n - 1) \cup
         {Append(q, x) : q \in {p \in SeqsUpTo(S, n - 1) : Len(p) = n - 1}, x \in S}

LabelFragments ==
    [container : BOOLEAN, extras : BOOLEAN, rows : SeqsUpTo(RowKinds, MaxLabelRows)]

\* the tree after <tag attrs>text</tag> inside parent
AddNode(ns, parent, tag, attrs, text) ==
    DataNodes(StartNodes(ns, <<parent>>, tag, attrs), <<Len(ns) + 1>>, text)

ClassAttr(token) == << <<"class", <<token>> >> >>

IngredientsPrefix == <<"I", "n", "g", "r", "e", "d", "i", "e", "n", "t", "s", ":">>

\* a servings block (a span and a left and a right block), a calories block
\* and an ingredients table, inside the node c
AddExtras(ns, c) ==
    LET s0 == AddNode(ns, c, "div", ClassAttr("cbo_nn_LabelBottomBorderLabel"), <<>>)
        sd == Len(s0)
        s1 == AddNode(s0, sd, "span", <<>>, <<"2">>)
        s2 == AddNode(s1, sd, "div", ClassAttr("inline-div-left"), <<"s", "i", "z", "e">>)
        s3 == AddNode(s2, sd, "div", ClassAttr("inline-div-right"), <<"1", " ", "c", "u", "p">>)
        s4 == AddNode(s3, c, "div", ClassAttr("cbo_nn_LabelSubHeader"), <<>>)
        s5 == AddNode(s4, Len(s4), "span", ClassAttr("font-22"), <<"9", "0">>)
    IN  AddNode(s5, c, "table", ClassAttr("cbo_nn_Label_IngredientsTable"),
                IngredientsPrefix \o <<" ", "x", ",", " ", "y", " ">>)

\* the k-th nutrient row inside the node c: its label is the k-th letter
AddRow(ns, c, kind, k) ==
    LET cls == IF k % 2 = 1 THEN "cbo_nn_LabelBorderedSubHeader"
               ELSE "cbo_nn_LabelNoBorderSubHeader"
        r0 == AddNode(ns, c, "div", ClassAttr(cls), <<>>)
        row == Len(r0)
        r1 == IF kind.left THEN AddNode(r0, row, "div", ClassAttr("inline-div-left"), <<>>)
              ELSE r0
        left == Len(r1)
        r2 == IF kind.spans >= 1 THEN AddNode(r1, left, "span", <<>>, <<Letters[k]>>) ELSE r1
        r3 == IF kind.spans >= 2 THEN AddNode(r2, left, "span", <<>>, <<"1", "g">>) ELSE r2
    IN  IF kind.right
        THEN AddNode(r3, row, "div", ClassAttr("inline-div-right"), <<"5", "%">>)
        ELSE r3

RECURSIVE AddRows(_, _, _, _)
AddRows(ns, c, rows, k) ==
    IF k > Len(rows) THEN ns
    ELSE AddRows(AddRow(ns, c, rows[k], k), c, rows, k + 1)

LabelTree(frag) ==
    LET t0 == <<NewNode("document", AttrsDict(<<>>), None)>>
        t1 == AddNode(t0, 1, "div",
                      IF frag.container THEN << <<"id", <<"nutritionLabel">> >> >> ELSE <<>>,
                      <<>>)
        t2 == IF frag.extras THEN AddExtras(t1, 2) ELSE t1
    IN  AddRows(t2, 2, frag.rows, 1)

\* s.strip()
RECURSIVE LStrip(_)
LStrip(s) == IF s # <<>> /\ IsSpace(Head(s)) THEN LStrip(Tail(s)) ELSE s

RECURSIVE RStrip(_)
RStrip(s) ==
    IF s # <<>> /\ IsSpace(s[Len(s)]) THEN RStrip(SubSeq(s, 1, Len(s) - 1)) ELSE s

Strip(s) == RStrip(LStrip(s))

\* s.replace(old, "")
RECURSIVE Remove(_, _)
Remove(s, old) ==
    IF Len(s) < Len(old) THEN s
    ELSE IF SubSeq(s, 1, Len(old)) = old THEN Remove(SubSeq(s, Len(old) + 1, Len(s)), old)
    ELSE <<Head(s)>> \o Remove(Tail(s), old)

\* s.split(","), from the part `word` being read on
RECURSIVE SplitComma(_, _)
SplitComma(s, word) ==
    IF s = <<>> THEN <<word>>
    ELSE IF Head(s) = "," THEN <<word>> \o SplitComma(Tail(s), <<>>)
    ELSE SplitComma(Tail(s), Append(word, Head(s)))

\* [child for child in node.children if child.tag == "span"]
SpanChildren(ns, n) == SelectSeq(ns[n].children, LAMBDA c : ns[c].tag = "span")

\* the result parse starts from
InitialResult ==
    [servings_per_container |-> NoValue, serving_size |-> NoValue, calories |-> NoValue,
     nutrients |-> <<>>, ingredients |-> [text |-> <<>>, list |-> <<>>]]

\* the servings block of the label container c
ServingsPerContainer(ns, c) ==
    LET servings_div == FindFirst(ns, c, "div", "cbo_nn_LabelBottomBorderLabel")
    IN  IF servings_div = None THEN NoValue
        ELSE IF SpanChildren(ns, servings_div) = <<>> THEN NoValue
        ELSE TextOf(ns, SpanChildren(ns, servings_div)[1], TRUE)

ServingSize(ns, c) ==
    LET servings_div == FindFirst(ns, c, "div", "cbo_nn_LabelBottomBorderLabel")
    IN  IF servings_div = None THEN NoValue
        ELSE LET size_div == FindFirst(ns, servings_div, "div", "inline-div-left")
                 value_div == FindFirst(ns, servings_div, "div", "inline-div-right")
             IN  IF size_div # None /\ value_div # None
                 THEN TextOf(ns, size_div, TRUE) \o <<" ">> \o TextOf(ns, value_div, TRUE)
                 ELSE NoValue

\* the calories block
Calories(ns, c) ==
    LET calories_div == FindFirst(ns, c, "div", "cbo_nn_LabelSubHeader")
    IN  IF calories_div = None THEN NoValue
        ELSE LET calorie_value == FindFirst(ns, calories_div, NoTag, "font")
             IN  IF calorie_value = None THEN NoValue ELSE TextOf(ns, calorie_value, TRUE)

\* the ingredients table
Ingredients(ns, c) ==
    LET ingredients_table == FindFirst(ns, c, "table", "cbo_nn_Label_IngredientsTable")
    IN  IF ingredients_table = None THEN [text |-> <<>>, list |-> <<>>]
        ELSE LET cleaned == Strip(Remove(TextOf(ns, ingredients_table, TRUE), IngredientsPrefix))
                 parts == SplitComma(cleaned, <<>>)
                 stripped == [i \in 1..Len(parts) |-> Strip(parts[i])]
             IN  [text |-> cleaned,
                  list |-> IF cleaned = <<>> THEN <<>>
                           ELSE SelectSeq(stripped, LAMBDA part : part # <<>>)]

\* one pass of the loop over nutrient_rows: no entry or one entry
NutrientRow(ns, row) ==
    LET left == FindFirst(ns, row, NoTag, "inline-div-left")
        right == FindFirst(ns, row, NoTag, "inline-div-right")
    IN  IF left = None THEN <<>>
        ELSE LET spans == SpanChildren(ns, left)
             IN  IF spans = <<>> THEN <<>>
                 ELSE << [label |-> TextOf(ns, spans[1], TRUE),
                          amount |-> IF Len(spans) > 1 THEN TextOf(ns, spans[2], TRUE) ELSE <<>>,
                          daily_value |-> IF right # None THEN TextOf(ns, right, TRUE)
                                          ELSE <<>>] >>

\* (mutant of LabelStart: no test of label_container, and the first
\* label_container.find_first raises on None)
LabelStartNoCheck(ns) ==
    LET label_container == FindFirst(ns, 1, NoTag, "id_nutritionLabel")
    IN  IF label_container = None
        THEN [pc |-> "raised", rows |-> <<>>, result |-> <<>>]
        ELSE [pc |-> "rows",
              rows |-> FindAll(ns, label_container, "div", "nutrient_row"),
              result |-> [InitialResult EXCEPT
                  !.servings_per_container = ServingsPerContainer(ns, label_container),
                  !.serving_size = ServingSize(ns, label_container),
                  !.calories = Calories(ns, label_container)]]

\* parse up to the loop over the nutrient rows: return {} without a label
\* container, else the servings and calories fields and the rows to visit
LabelStart(ns) ==
    LET label_container == FindFirst(ns, 1, NoTag, "id_nutritionLabel")
    IN  IF label_container = None
        THEN [pc |-> "returned", rows |-> <<>>, result |-> <<>>]
        ELSE [pc |-> "rows",
              rows |-> FindAll(ns, label_container, "div", "nutrient_row"),
              result |-> [InitialResult EXCEPT
                  !.servings_per_container = ServingsPerContainer(ns, label_container),
                  !.serving_size = ServingSize(ns, label_container),
                  !.calories = Calories(ns, label_container)]]

\* parse, from root = parse_html(label_html) to nutrients = []
LabelBegin(frag) ==
    LET root == LabelTree(frag)
        start == LabelStart(root)
    IN  /\ labelPc = "idle"
        /\ nodes' = root
        /\ stack' = <<1>>
        /\ labelPc' = start.pc
        /\ nutrient_rows' = start.rows
        /\ labelResult' = start.result
        /\ rowIdx' = 1
        /\ nutrients' = <<>>

\* for row in nutrient_rows: ...
LabelRow ==
    /\ labelPc = "rows"
    /\ rowIdx <= Len(nutrient_rows)
    /\ nutrients' = nutrients \o NutrientRow(nodes, nutrient_rows[rowIdx])
    /\ rowIdx' = rowIdx + 1
    /\ UNCHANGED <<nodes, stack, labelPc, nutrient_rows, labelResult>>

\* result["nutrients"] = nutrients, the ingredients, return result
LabelReturn ==
    /\ labelPc = "rows"
    /\ rowIdx > Len(nutrient_rows)
    /\ labelResult' =
          [labelResult EXCEPT
              !.nutrients = nutrients,
              !.ingredients =
                  Ingredients(nodes, FindFirst(nodes, 1, NoTag, "id_nutritionLabel"))]
    /\ labelPc' = "returned"
    /\ UNCHANGED <<nodes, stack, nutrient_rows, rowIdx, nutrients>>

\* the caller is done with the result, and the parser is ready for the
\* next fragment
LabelForget ==
    /\ labelPc = "returned"
    /\ labelPc' = "idle"
    /\ nodes' = <<NewNode("document", AttrsDict(<<>>), None)>>
    /\ nutrient_rows' = <<>>
    /\ rowIdx' = 1
    /\ nutrients' = <<>>
    /\ labelResult' = <<>>
    /\ UNCHANGED stack

LabelIdle ==
    /\ labelPc = "idle"
    /\ nutrient_rows = <<>>
    /\ rowIdx = 1
    /\ nutrients = <<>>
    /\ labelResult = <<>>

(***************************************************************************)
(* normalize_label                                                         *)
(*                                                                         *)
(* The characters of the model, by name: the letters a, e, f, i (lower     *)
(* case) and A, E (upper case), the precomposed e_acute and E_acute, the   *)
(* combining mark acute, the space, the no-break space nbsp and the        *)
(* ligature fi.  A string is a sequence of character names.                *)
(***************************************************************************)
NormChars == {"a", "A", "e_acute", "E_acute", "acute", " ", "nbsp", "fi"}

\* the NFKD decomposition of one character
Decompose(ch) ==
    CASE ch = "e_acute" -> <<"e", "acute">>
      [] ch = "E_acute" -> <<"E", "acute">>
      [] ch = "nbsp" -> <<" ">>
      [] ch = "fi" -> <<"f", "i">>
      [] OTHER -> <<ch>>

\* unicodedata.normalize("NFKD", s)
RECURSIVE NFKD(_)
NFKD(s) == IF s = <<>> THEN <<>> ELSE Decompose(Head(s)) \o NFKD(Tail(s))

\* unicodedata.combining(ch) != 0
Combining(ch) == ch = "acute"

\* str.lower, one character
LowerChar(ch) ==
    CASE ch = "A" -> "a"
      [] ch = "E" -> "e"
      [] ch = "E_acute" -> "e_acute"
      [] OTHER -> ch

Lower(s) == [i \in 1..Len(s) |-> LowerChar(s[i])]

\* (mutant of NormalizeLabel: trimmed before the combining marks are dropped)
NormalizeLabelStripFirst(value) ==
    LET nfkd == NFKD(IF value = NoValue THEN <<>> ELSE value)
    IN  Lower(SelectSeq(Strip(nfkd), LAMBDA ch : ~Combining(ch)))

\* normalize_label: NFKD of (value or ""), without the combining
\* characters, stripped and lower-cased
NormalizeLabel(value) ==
    LET nfkd == NFKD(IF value = NoValue THEN <<>> ELSE value)
        ascii_only == SelectSeq(nfkd, LAMBDA ch : ~Combining(ch))
    IN  Lower(Strip(ascii_only))

\* the values normalize_label is called on: None and the short strings
NormInputs == {NoValue} \cup SeqsUpTo(NormChars, MaxLabelLen)

\* label = normalize_label(value)
NormalizeCall(value) ==
    /\ normPc = "idle"
    /\ normPc' = "once"
    /\ normInput' = value
    /\ normOnce' = NormalizeLabel(value)
    /\ UNCHANGED normTwice

\* normalize_label(label), on the result of the call before
NormalizeAgain ==
    /\ normPc = "once"
    /\ normPc' = "twice"
    /\ normTwice' = NormalizeLabel(normOnce)
    /\ UNCHANGED <<normInput, normOnce>>

\* the caller is done with the label
NormForget ==
    /\ normPc = "twice"
    /\ normPc' = "idle"
    /\ normInput' = <<>>
    /\ normOnce' = <<>>
    /\ normTwice' = <<>>

NormIdle ==
    /\ normPc = "idle"
    /\ normInput = <<>>
    /\ normOnce = <<>>
    /\ normTwice = <<>>

(***************************************************************************)
(* DukeNetNutritionScraper.fetch_nutrition                                 *)
(*                                                                         *)
(* The server's answer to a label request is one of Responses, or the      *)
(* request fails ("error": post_html raises).  A parsed record is          *)
(* modelled by the object parse made (obj numbers the records in the       *)
(* order of their making) and its value: <<>> for the empty record {},     *)
(* else the label that was parsed.                                         *)
(***************************************************************************)
DetailIds == 1..MaxDetailIds

Responses == {"no_label", "label_a", "label_b"}

\* self.nutrition_parser.parse(html), as a value
ParsedValue(response) == IF response = "no_label" THEN <<>> ELSE <<response>>

\* (mutant of CacheHit: `if self.nutrition_cache.get(detail_id):`, which an
\* empty record does not pass)
CacheHitTruthy(cache, detail_id) ==
    detail_id \in DOMAIN cache /\ cache[detail_id].value # <<>>

\* detail_id in self.nutrition_cache
CacheHit(cache, detail_id) == detail_id \in DOMAIN cache

\* cache[detail_id] = parsed
CacheStore(cache, detail_id, parsed) ==
    [k \in DOMAIN cache \cup {detail_id} |-> IF k = detail_id THEN parsed ELSE cache[k]]

NoRecord == [obj |-> 0, value |-> <<>>]

\* one call of fetch_nutrition(detail_id); answer is what the server does
\* if it is asked
FetchNutrition(detail_id, answer) ==
    IF CacheHit(nutrition_cache, detail_id)
    THEN /\ lastFetch' = [detail_id |-> detail_id, raised |-> FALSE,
                          result |-> nutrition_cache[detail_id]]
         /\ UNCHANGED <<nutrition_cache, sleeps, requests, parses>>
    ELSE /\ sleeps' = [sleeps EXCEPT ![detail_id] = @ + 1]
         /\ requests' = [requests EXCEPT ![detail_id] = @ + 1]
         /\ IF answer = "error"
            THEN /\ requests[detail_id] < MaxFailures
                 /\ lastFetch' = [detail_id |-> detail_id, raised |-> TRUE,
                                  result |-> NoRecord]
                 /\ UNCHANGED <<nutrition_cache, parses>>
            ELSE LET parsed == [obj |-> parses + 1, value |-> ParsedValue(answer)]
                 IN  /\ parses' = parses + 1
                     /\ nutrition_cache' = CacheStore(nutrition_cache, detail_id, parsed)
                     /\ lastFetch' = [detail_id |-> detail_id, raised |-> FALSE,
                                      result |-> parsed]

\* DukeNetNutritionScraper.__init__: self.nutrition_cache = {}
CacheIdle ==
    /\ nutrition_cache = <<>>
    /\ sleeps = [k \in DetailIds |-> 0]
    /\ requests = [k \in DetailIds |-> 0]
    /\ parses = 0
    /\ lastFetch = [detail_id |-> 0, raised |-> FALSE, result |-> NoRecord]

(***************************************************************************)
(* DukeNetNutritionScraper.run, the loop over the units                    *)
(*                                                                         *)
(* A panel (the html of the "itemPanel" panel of a response) is NoValue    *)
(* when _extract_panel returns None, else a sequence of pieces: a space,   *)
(* the token cbo_nn_itemGroupRow, or other markup ("x", "y").              *)
(***************************************************************************)
Units == <<"u1", "u2">>

PanelHtmls ==
    { NoValue, <<>>, <<"x", "y">>, <<GroupRowClass>>, <<" ", GroupRowClass>>,
      <<GroupRowClass, "x">> }

\* hash(s): a number computed from the characters of s, the same for equal
\* strings and for some unequal ones
PieceCode(piece) ==
    CASE piece = "x" -> 1
      [] piece = "y" -> 2
      [] piece = GroupRowClass -> 3
      [] OTHER -> 4

RECURSIVE HashOf(_)
HashOf(s) == IF s = <<>> THEN 0 ELSE PieceCode(Head(s)) + HashOf(Tail(s))

\* _panel_hash: str(hash(html_fragment.strip()))
PanelHash(html_fragment) == HashOf(Strip(html_fragment))

\* html and "cbo_nn_itemGroupRow" in html
HasGroupRow(html) ==
    /\ html # NoValue
    /\ html # <<>>
    /\ GroupRowClass \in Range(html)

\* (mutant of SeenAtUnitStart: the set is made once, before the loop over
\* the units)
SeenAtUnitStartKept(previous) == previous

\* seen_hashes = set(), at the start of every pass of the loop over the units
SeenAtUnitStart(previous) == {}

\* one pass of the loop over the units, up to the loop over the meals:
\* the unit's response, its All Meals panel
UnitBegin(panel_html) ==
    /\ runPc = "units"
    /\ unitIdx <= Len(Units)
    /\ runPc' = "meals"
    /\ mealIdx' = 1
    /\ unitPanel' = panel_html
    /\ mealHtmls' = <<>>
    /\ IF HasGroupRow(panel_html)
       THEN /\ seen_hashes' = SeenAtUnitStart(seen_hashes) \cup {PanelHash(panel_html)}
            /\ meal_sections' = <<[label |-> 0, html |-> panel_html]>>
       ELSE /\ seen_hashes' = SeenAtUnitStart(seen_hashes)
            /\ meal_sections' = <<>>
    /\ UNCHANGED <<unitIdx, aggregated>>

\* one pass of the loop over the meals
MealStep(meal_html) ==
    /\ runPc = "meals"
    /\ mealIdx <= MaxMeals
    /\ mealIdx' = mealIdx + 1
    /\ mealHtmls' = Append(mealHtmls, meal_html)
    /\ IF ~HasGroupRow(meal_html)
       THEN UNCHANGED <<seen_hashes, meal_sections>>
       ELSE IF PanelHash(meal_html) \in seen_hashes
       THEN UNCHANGED <<seen_hashes, meal_sections>>
       ELSE /\ seen_hashes' = seen_hashes \cup {PanelHash(meal_html)}
            /\ meal_sections' = Append(meal_sections, [label |-> mealIdx, html |-> meal_html])
    /\ UNCHANGED <<runPc, unitIdx, unitPanel, aggregated>>

\* aggregated[unit.name] = meal_sections, and on to the next unit
UnitEnd ==
    /\ runPc = "meals"
    /\ mealIdx > MaxMeals
    /\ aggregated' = Append(aggregated, [unit |-> Units[unitIdx], sections |-> meal_sections])
    /\ unitIdx' = unitIdx + 1
    /\ runPc' = "units"
    /\ UNCHANGED <<mealIdx, unitPanel, mealHtmls, seen_hashes, meal_sections>>

RunIdle ==
    /\ runPc = "units"
    /\ unitIdx = 1
    /\ mealIdx = 1
    /\ unitPanel = NoValue
    /\ mealHtmls = <<>>
    /\ seen_hashes = {}
    /\ meal_sections = <<>>
    /\ aggregated = <<>>

(***************************************************************************)
(* extract_meal_options                                                    *)
(*                                                                         *)
(* The input tells whether the page has a node of id "nav-meal-selector"   *)
(* and gives the links container.find_all(tag="a") yields, each modelled   *)
(* by what the loop reads from it:                                         *)
(*   mealoid  the value of its data-mealoid attribute, NoValue without one *)
(*   text     link.text(), a sequence of pieces (a word, a space, or a     *)
(*            character reference)                                         *)
(***************************************************************************)
MealOidTexts == {NoValue, <<"x">>, <<"-", "1">>, <<"1">>, <<"0", "1">>, <<"2">>}

LinkTexts == { <<"Lunch">>, <<"Dinner">>, <<"Show", " ", "All", " ", "Meals", "&#32;">> }

\* every id on a "Lunch" link, a repeated and a fresh id on a "Dinner" link,
\* and a "Show All Meals" link that carries the id of a meal
LinkKinds ==
    {k \in [mealoid : MealOidTexts, text : LinkTexts] :
        \/ k.text = <<"Lunch">>
        \/ k.text = <<"Dinner">> /\ k.mealoid \in {<<"0", "1">>, <<"2">>}
        \/ k.text \notin {<<"Lunch">>, <<"Dinner">>} /\ k.mealoid = <<"1">>}

\* find_node_by_id found no container
NoContainer == [found |-> FALSE, links |-> <<>>]

MealInputs ==
    {NoContainer} \cup {[found |-> TRUE, links |-> s] : s \in SeqsUpTo(LinkKinds, MaxLinks)}

\* int(text) with a sign: the value of an optional sign and a run of
\* decimal digits, or ValueError
SignedIntOf(text) ==
    IF text # <<>> /\ Head(text) = "-"
    THEN [error |-> IntOf(Tail(text)).error, value |-> 0 - IntOf(Tail(text)).value]
    ELSE IF text # <<>> /\ Head(text) = "+" THEN IntOf(Tail(text))
    ELSE IntOf(text)

\* html.unescape: the character references of the model's texts
Unescape(text) ==
    [i \in 1..Len(text) |-> IF text[i] = "&#32;" THEN " " ELSE text[i]]

\* str.lower, on the words of the model's texts
LowerWord(piece) ==
    CASE piece = "Show" -> "show"
      [] piece = "All" -> "all"
      [] piece = "Meals" -> "meals"
      [] piece = "Lunch" -> "lunch"
      [] piece = "Dinner" -> "dinner"
      [] OTHER -> piece

LowerWords(text) == [i \in 1..Len(text) |-> LowerWord(text[i])]

ShowAllMeals == <<"show", " ", "all", " ", "meals">>

\* what one pass of the loop does: the set seen after it, the option it
\* appended (<<option>>, or <<>> for none) and whether it raised
LinkOutcome(ids, option, raised) == [seen |-> ids, option |-> option, raised |-> raised]

\* (mutant of MealLink: the id is added to seen before the label is looked at)
MealLinkMarksFirst(link, ids) ==
    LET meal_id == SignedIntOf(IF link.mealoid = NoValue THEN <<"-", "1">> ELSE link.mealoid)
        label == Strip(Unescape(link.text))
    IN  IF meal_id.error THEN LinkOutcome(ids, <<>>, FALSE)
        ELSE IF meal_id.value \in ids THEN LinkOutcome(ids, <<>>, FALSE)
        ELSE IF meal_id.value < 0 \/ LowerWords(label) = ShowAllMeals
        THEN LinkOutcome(ids \cup {meal_id.value}, <<>>, FALSE)
        ELSE LinkOutcome(ids \cup {meal_id.value},
                         <<[label |-> label, meal_id |-> meal_id.value]>>, FALSE)

\* one pass of the loop over the links
MealLink(link, ids) ==
    LET meal_id == SignedIntOf(IF link.mealoid = NoValue THEN <<"-", "1">> ELSE link.mealoid)
        label == Strip(Unescape(link.text))
    IN  IF meal_id.error THEN LinkOutcome(ids, <<>>, FALSE)
        ELSE IF meal_id.value < 0 \/ LowerWords(label) = ShowAllMeals
        THEN LinkOutcome(ids, <<>>, FALSE)
        ELSE IF meal_id.value \in ids THEN LinkOutcome(ids, <<>>, FALSE)
        ELSE LinkOutcome(ids \cup {meal_id.value},
                         <<[label |-> label, meal_id |-> meal_id.value]>>, FALSE)

\* extract_meal_options up to the loop: return [] without a container
MealBegin(input) ==
    /\ mealPc = "idle"
    /\ mealInput' = input
    /\ mealPc' = IF ~input.found THEN "returned" ELSE "links"
    /\ linkIdx' = 1
    /\ seen' = {}
    /\ options' = <<>>

\* for link in container.find_all(tag="a"): ...
MealLinkStep ==
    /\ mealPc = "links"
    /\ linkIdx <= Len(mealInput.links)
    /\ LET outcome == MealLink(mealInput.links[linkIdx], seen)
       IN  /\ seen' = outcome.seen
           /\ options' = options \o outcome.option
           /\ mealPc' = IF outcome.raised THEN "raised" ELSE "links"
    /\ linkIdx' = linkIdx + 1
    /\ UNCHANGED mealInput

\* return options
MealReturn ==
    /\ mealPc = "links"
    /\ linkIdx > Len(mealInput.links)
    /\ mealPc' = "returned"
    /\ UNCHANGED <<mealInput, linkIdx, seen, options>>

\* the caller has taken the options
MealForget ==
    /\ mealPc = "returned"
    /\ mealPc' = "idle"
    /\ mealInput' = NoContainer
    /\ linkIdx' = 1
    /\ seen' = {}
    /\ options' = <<>>

MealIdle ==
    /\ mealPc = "idle"
    /\ mealInput = NoContainer
    /\ linkIdx = 1
    /\ seen = {}
    /\ options = <<>>

OtherIdle == ParseIdle /\ QueryIdle /\ LabelIdle /\ NormIdle /\ CacheIdle /\ RunIdle /\ MealIdle

Init == BuilderInit /\ MenuIdle /\ OtherIdle

\* HTMLParser.feed calls one handler per token of the markup.
StartTagEvent ==
    \E tag \in StartTagNames, attrs \in AttrLists :
        HandleStartTag(tag, attrs) /\ Recorded("start", tag, <<>>) /\ UNCHANGED <<menuVars, otherVars>>

EndTagEvent ==
    \E tag \in EndTagNames :
        HandleEndTag(tag) /\ Recorded("end", tag, <<>>) /\ UNCHANGED <<menuVars, otherVars>>

StartEndTagEvent ==
    \E tag \in StartTagNames, attrs \in AttrLists :
        HandleStartEndTag(tag, attrs) /\ Recorded("startend", tag, <<>>) /\ UNCHANGED <<menuVars, otherVars>>

DataEvent ==
    \E data \in DataChunks(TextPartCount(nodes) + 1) :
        HandleData(data) /\ Recorded("data", "", data) /\ UNCHANGED <<menuVars, otherVars>>

Next == StartTagEvent \/ EndTagEvent \/ StartEndTagEvent \/ DataEvent

Spec == Init /\ [][Next]_vars

\* The same feed without the record of the run: the trees parse_html can
\* return, for the properties of the queries on a tree.  The queries on
\* nodes and tags do not read the characters of the text, so one chunk stands
\* for any text.
TreeDataChunks == { <<>>, <<"a">> }
recordVars == <<lastEvent, prevStack, dataLog>>

TreeStartTag ==
    \E tag \in StartTagNames, attrs \in AttrLists :
        HandleStartTag(tag, attrs) /\ UNCHANGED <<recordVars, menuVars, otherVars>>

TreeEndTag ==
    \E tag \in EndTagNames :
        HandleEndTag(tag) /\ UNCHANGED <<recordVars, menuVars, otherVars>>

TreeStartEndTag ==
    \E tag \in StartTagNames, attrs \in AttrLists :
        HandleStartEndTag(tag, attrs) /\ UNCHANGED <<recordVars, menuVars, otherVars>>

TreeData ==
    \E data \in TreeDataChunks :
        HandleData(data) /\ UNCHANGED <<recordVars, menuVars, otherVars>>

TreeNext == TreeStartTag \/ TreeEndTag \/ TreeStartEndTag \/ TreeData

TreeSpec == Init /\ [][TreeNext]_vars

\* MenuParser.parse on a table whose rows are drawn from Rows
MenuNext ==
    \/ MenuNoTable /\ UNCHANGED <<builderVars, otherVars>>
    \/ MenuTableFound /\ UNCHANGED <<builderVars, otherVars>>
    \/ (\E row \in Rows : ParseRow(row)) /\ UNCHANGED <<builderVars, otherVars>>
    \/ MenuReturn /\ UNCHANGED <<builderVars, otherVars>>

MenuSpec == Init /\ [][MenuNext]_vars

\* repeated parse_html calls
ParseNext ==
    \/ ParseBegin /\ UNCHANGED <<recordVars, menuVars, queryVars, labelVars, normVars, cacheVars, runVars, mealVars>>
    \/ (\E e \in ParseEvents : ParseFeed(e)) /\ UNCHANGED <<recordVars, menuVars, queryVars, labelVars, normVars, cacheVars, runVars, mealVars>>
    \/ (\E keep \in BOOLEAN : ParseReturn(keep)) /\ UNCHANGED <<recordVars, menuVars, queryVars, labelVars, normVars, cacheVars, runVars, mealVars>>

ParseSpec == Init /\ [][ParseNext]_vars

\* queries on the trees parse_html returns
QueryNext ==
    \/ ParseBegin /\ QueryForget /\ UNCHANGED <<recordVars, menuVars, labelVars, normVars, cacheVars, runVars, mealVars>>
    \/ (\E e \in ParseEvents : ParseFeed(e)) /\ UNCHANGED <<recordVars, menuVars, queryVars, labelVars, normVars, cacheVars, runVars, mealVars>>
    \/ ParseReturn(FALSE) /\ UNCHANGED <<recordVars, menuVars, queryVars, labelVars, normVars, cacheVars, runVars, mealVars>>
    \/ (\E q \in Queries(nodes), keep \in BOOLEAN : Query(q, keep))
          /\ UNCHANGED <<recordVars, menuVars, labelVars, normVars, cacheVars, runVars, mealVars>>

QuerySpec == Init /\ [][QueryNext]_vars

\* NutritionParser.parse on label fragments
LabelNext ==
    \/ (\E frag \in LabelFragments : LabelBegin(frag))
          /\ UNCHANGED <<recordVars, menuVars, parseVars, queryVars, normVars, cacheVars, runVars, mealVars>>
    \/ LabelRow /\ UNCHANGED <<recordVars, menuVars, parseVars, queryVars, normVars, cacheVars, runVars, mealVars>>
    \/ LabelReturn /\ UNCHANGED <<recordVars, menuVars, parseVars, queryVars, normVars, cacheVars, runVars, mealVars>>
    \/ LabelForget /\ UNCHANGED <<recordVars, menuVars, parseVars, queryVars, normVars, cacheVars, runVars, mealVars>>

LabelSpec == Init /\ [][LabelNext]_vars

\* normalize_label, and normalize_label again on its result
NormNext ==
    \/ (\E value \in NormInputs : NormalizeCall(value))
          /\ UNCHANGED <<builderVars, menuVars, parseVars, queryVars, labelVars, cacheVars, runVars, mealVars>>
    \/ NormalizeAgain /\ UNCHANGED <<builderVars, menuVars, parseVars, queryVars, labelVars, cacheVars, runVars, mealVars>>
    \/ NormForget /\ UNCHANGED <<builderVars, menuVars, parseVars, queryVars, labelVars, cacheVars, runVars, mealVars>>

NormSpec == Init /\ [][NormNext]_vars

\* the calls of fetch_nutrition on one scraper
CacheNext ==
    \E detail_id \in DetailIds, answer \in Responses \cup {"error"} :
        /\ FetchNutrition(detail_id, answer)
        /\ UNCHANGED <<builderVars, menuVars, parseVars, queryVars, labelVars, normVars, runVars, mealVars>>

CacheSpec == Init /\ [][CacheNext]_vars

\* run, over the units and the meals of each
RunNext ==
    \/ (\E panel_html \in PanelHtmls : UnitBegin(panel_html))
          /\ UNCHANGED <<builderVars, menuVars, parseVars, queryVars, labelVars, normVars, cacheVars, mealVars>>
    \/ (\E meal_html \in PanelHtmls : MealStep(meal_html))
          /\ UNCHANGED <<builderVars, menuVars, parseVars, queryVars, labelVars, normVars, cacheVars, mealVars>>
    \/ UnitEnd
          /\ UNCHANGED <<builderVars, menuVars, parseVars, queryVars, labelVars, normVars, cacheVars, mealVars>>

RunSpec == Init /\ [][RunNext]_vars

\* extract_meal_options on the links of a page
MealNext ==
    \/ (\E input \in MealInputs : MealBegin(input))
          /\ UNCHANGED <<builderVars, menuVars, parseVars, queryVars, labelVars, normVars, cacheVars, runVars>>
    \/ MealLinkStep
          /\ UNCHANGED <<builderVars, menuVars, parseVars, queryVars, labelVars, normVars, cacheVars, runVars>>
    \/ MealReturn
          /\ UNCHANGED <<builderVars, menuVars, parseVars, queryVars, labelVars, normVars, cacheVars, runVars>>
    \/ MealForget
          /\ UNCHANGED <<builderVars, menuVars, parseVars, queryVars, labelVars, normVars, cacheVars, runVars>>

MealSpec == Init /\ [][MealNext]_vars

(***************************************************************************)
(* Vocabulary of the properties of the tree builder.                       *)
(***************************************************************************)
NodeIds == 1..Len(nodes)

\* the positions of the stack holding an open element named tag; position 1
\* holds the document root, which is no element of the markup
OpenMatches(stk, tag) == {p \in 2..Len(stk) : nodes[stk[p]].tag = tag}

\* a is n or an ancestor of n, following the parent references
RECURSIVE IsAncestorOrSelf(_, _)
IsAncestorOrSelf(a, n) ==
    IF n = None THEN FALSE
    ELSE IF n = a THEN TRUE
    ELSE IsAncestorOrSelf(a, nodes[n].parent)

Subtree(n) == {m \in NodeIds : IsAncestorOrSelf(n, m)}

\* x comes before y in document order: x is a proper ancestor of y, or they
\* lie under two different children of a common ancestor and x's is the
\* earlier child
DocBefore(x, y) ==
    \/ x # y /\ IsAncestorOrSelf(x, y)
    \/ \E a \in NodeIds : \E i, j \in 1..Len(nodes[a].children) :
          /\ i < j
          /\ IsAncestorOrSelf(nodes[a].children[i], x)
          /\ IsAncestorOrSelf(nodes[a].children[j], y)

IsPrefix(s, t) == Len(s) <= Len(t) /\ SubSeq(t, 1, Len(s)) = s

\* the text events that fell inside n (on n or on a descendant of n), joined
\* in the order in which they arrived
DocText(n) ==
    LET RECURSIVE From(_)
        From(i) == IF i > Len(dataLog) THEN <<>>
                   ELSE (IF dataLog[i].node \in Subtree(n)
                         THEN dataLog[i].data ELSE <<>>) \o From(i + 1)
    IN  From(1)

(***************************************************************************)
(* C1.  An end tag whose name matches one or more open elements closes the *)
(* nearest one to the top of the stack and everything opened after it: the *)
(* stack afterwards is exactly the prefix that was below that element, no  *)
(* node of the closed element's subtree is left on the stack, the tree is  *)
(* untouched, and the new top of the stack is the closed element's parent. *)
(***************************************************************************)
C1_EndTagStep ==
    (lastEvent'.kind = "end" /\ OpenMatches(stack, lastEvent'.tag) # {}) =>
        LET ms == OpenMatches(stack, lastEvent'.tag)
            p == CHOOSE q \in ms : \A r \in ms : r <= q
            closed == stack[p]
        IN  /\ stack' = SubSeq(stack, 1, p - 1)
            /\ nodes' = nodes
            /\ \A i \in 1..Len(stack') : stack'[i] \notin Subtree(closed)
            /\ \A i \in p..Len(stack) : stack[i] \in Subtree(closed)
            /\ stack'[Len(stack')] = nodes[closed].parent

C1_EndTagClosesNearestMatch == [][C1_EndTagStep]_vars

\* an end tag has just closed an element together with one still open inside it
C1_Witness ==
    /\ lastEvent.kind = "end"
    /\ Len(prevStack) >= Len(stack) + 2
    /\ nodes[prevStack[Len(stack) + 1]].tag = lastEvent.tag

(***************************************************************************)
(* C2.  An end tag whose name matches no open element is a no-op: the      *)
(* stack and every node (tag, attributes, parent, children, text parts)    *)
(* are unchanged, so that the next text event goes to the same element.    *)
(***************************************************************************)
C2_UnmatchedEndTagStep ==
    (lastEvent'.kind = "end" /\ OpenMatches(stack, lastEvent'.tag) = {}) =>
        /\ stack' = stack
        /\ nodes' = nodes
        /\ dataLog' = dataLog

C2_UnmatchedEndTagIsNoOp == [][C2_UnmatchedEndTagStep]_vars

\* <div>a</span>: the stray end tag arrived with the div open and holding "a"
C2_Witness ==
    /\ lastEvent = Event("end", "span")
    /\ prevStack = <<1, 2>>
    /\ stack = <<1, 2>>
    /\ nodes[2].tag = "div"
    /\ nodes[2].text_parts = << <<"a">> >>

(***************************************************************************)
(* C3.  A node whose tag is a void tag has no children and no text parts,  *)
(* in every reachable state of the builder.                                *)
(***************************************************************************)
C3_VoidNodesStayEmpty ==
    \A n \in NodeIds :
        nodes[n].tag \in VOID_TAGS =>
            nodes[n].children = <<>> /\ nodes[n].text_parts = <<>>

\* <br></br>x : a void element, then its end tag, then text
C3_Witness ==
    /\ lastEvent.kind = "data"
    /\ \E n \in NodeIds :
          /\ nodes[n].tag \in VOID_TAGS
          /\ n = Len(nodes)
          /\ dataLog # <<>>
          /\ nodes[dataLog[Len(dataLog)].node].children # <<>>
          /\ nodes[dataLog[Len(dataLog)].node].children[
                 Len(nodes[dataLog[Len(dataLog)].node].children)] = n

(***************************************************************************)
(* C4.  text(strip=False) of a node is the text of the node and of its     *)
(* descendants in document order, that is in the order in which the text   *)
(* events arrived.  (The code puts the node's own parts before the text of *)
(* all its children.)                                                      *)
(***************************************************************************)
C4_TextInDocumentOrder ==
    \A n \in NodeIds : TextOf(nodes, n, FALSE) = DocText(n)

(***************************************************************************)
(* Vocabulary of the properties of the menu extraction: what a table's     *)
(* rows are, read off the rows themselves.                                 *)
(***************************************************************************)
RowClasses(row) == Range(ClassList(row.class))

IsHeaderRow(row) == GroupRowClass \in RowClasses(row)

IsItemRow(row) == ~IsHeaderRow(row) /\ RowClasses(row) \cap ItemRowClasses # {}

\* the decimal numeral of n
RECURSIVE Numeral(_)
Numeral(n) ==
    IF n < 10 THEN <<Digits[n + 1]>>
    ELSE Numeral(n \div 10) \o <<Digits[(n % 10) + 1]>>

HasNumericId(row) == \E n \in 0..99 : Numeral(n) = row.detail

NumericId(row) == CHOOSE n \in 0..99 : Numeral(n) = row.detail

\* an item row that parses: a numeric detail id and at least four cells
IsValidItemRow(row) == IsItemRow(row) /\ HasNumericId(row) /\ row.cells >= 4

\* an item row whose detail id is missing or not a number
IsBadIdRow(row) == IsItemRow(row) /\ ~HasNumericId(row)

HeaderPositions(rows) == {i \in 1..Len(rows) : IsHeaderRow(rows[i])}

\* the position of the k-th header row
KthHeader(rows, k) ==
    CHOOSE i \in HeaderPositions(rows) :
        Cardinality({j \in HeaderPositions(rows) : j <= i}) = k

\* the position that ends the k-th category: the next header, or the end
SectionEnd(rows, k) ==
    IF k = Cardinality(HeaderPositions(rows)) THEN Len(rows) + 1
    ELSE KthHeader(rows, k + 1)

ExpectedItem(row) ==
    [detail_id |-> NumericId(row), name |-> row.name,
     nutrition |-> NutritionLoader(NumericId(row))]

RECURSIVE ItemsOfRows(_)
ItemsOfRows(rows) ==
    IF rows = <<>> THEN <<>>
    ELSE (IF IsValidItemRow(Head(rows)) THEN <<ExpectedItem(Head(rows))>> ELSE <<>>)
         \o ItemsOfRows(Tail(rows))

ExpectedCategory(rows, k) ==
    LET h == KthHeader(rows, k)
    IN  [name |-> IF rows[h].title = NoValue THEN UntitledCategory ELSE rows[h].title,
         items |-> ItemsOfRows(SubSeq(rows, h + 1, SectionEnd(rows, k) - 1))]

\* the items of all returned categories, in order
RECURSIVE AllItems(_)
AllItems(cats) ==
    IF cats = <<>> THEN <<>> ELSE Head(cats).items \o AllItems(Tail(cats))

\* the rows after the first header row
AfterFirstHeader(rows) ==
    IF HeaderPositions(rows) = {} THEN <<>>
    ELSE SubSeq(rows, KthHeader(rows, 1) + 1, Len(rows))

\* the row the step of the loop has just processed
RowTaken == rowsSeen'[Len(rowsSeen')]
IsRowStep == Len(rowsSeen') = Len(rowsSeen) + 1

(***************************************************************************)
(* C5.  nutrition_loader is called exactly once for each item row that     *)
(* ends up in the result, with that row's detail id and in row order, and  *)
(* not at all for a row that is dropped or ignored: the calls made so far  *)
(* are the detail ids of the returned items in order, and a turn of the    *)
(* loop makes one call when it adds an item and none otherwise.            *)
(***************************************************************************)
C5_CallsAreReturnedItems ==
    LET items == AllItems(categories)
    IN  /\ lookupCalls = [i \in 1..Len(items) |-> items[i].detail_id]
        /\ items = ItemsOfRows(AfterFirstHeader(rowsSeen))

C5_CallStep ==
    IsRowStep =>
        IF IsValidItemRow(RowTaken) /\ HeaderPositions(rowsSeen) # {}
        THEN lookupCalls' = Append(lookupCalls, NumericId(RowTaken))
        ELSE lookupCalls' = lookupCalls

C5_OneLookupPerReturnedItem == []C5_CallsAreReturnedItems /\ [][C5_CallStep]_vars

\* a finished extraction with two items and, after a header, a row with a
\* numeric id but too few cells
C5_Witness ==
    /\ menuPc = "done"
    /\ Len(lookupCalls) = 2
    /\ \E i, j \in 1..Len(rowsSeen) :
          /\ i < j
          /\ IsHeaderRow(rowsSeen[i])
          /\ IsItemRow(rowsSeen[j]) /\ HasNumericId(rowsSeen[j])
          /\ rowsSeen[j].cells < 4

(***************************************************************************)
(* C6.  The result has one category per header row, in row order, and the  *)
(* items of a category are exactly the item rows that parse between its    *)
(* header and the next one, in row order; a row that is neither a header   *)
(* nor an item row changes neither the result nor the current category.    *)
(***************************************************************************)
C6_ResultMatchesRows ==
    /\ Len(categories) = Cardinality(HeaderPositions(rowsSeen))
    /\ \A k \in 1..Len(categories) : categories[k] = ExpectedCategory(rowsSeen, k)

C6_OtherRowStep ==
    (IsRowStep /\ ~IsHeaderRow(RowTaken) /\ ~IsItemRow(RowTaken)) =>
        /\ categories' = categories
        /\ current_category' = current_category
        /\ menuPc' = "rows"

C6_CategoriesFollowRows == []C6_ResultMatchesRows /\ [][C6_OtherRowStep]_vars

\* a finished extraction with two categories, the first of them with an
\* item, and a row that is neither header nor item in the table
C6_Witness ==
    /\ menuPc = "done"
    /\ Len(categories) = 2
    /\ categories[1].items # <<>>
    /\ \E i \in 1..Len(rowsSeen) :
          ~IsHeaderRow(rowsSeen[i]) /\ ~IsItemRow(rowsSeen[i])

(***************************************************************************)
(* C7.  An item row met before any header row is dropped: the step leaves  *)
(* the result empty and calls nothing, the loop goes on, and as long as no *)
(* header was met the result is empty.                                     *)
(***************************************************************************)
C7_NoCategoryBeforeHeader ==
    HeaderPositions(rowsSeen) = {} => categories = <<>> /\ lookupCalls = <<>>

C7_EarlyItemRowStep ==
    (IsRowStep /\ IsItemRow(RowTaken) /\ HeaderPositions(rowsSeen) = {}) =>
        /\ categories' = <<>>
        /\ current_category' = None
        /\ lookupCalls' = <<>>
        /\ menuPc' = "rows"

C7_ItemRowBeforeHeaderDropped ==
    /\ []C7_NoCategoryBeforeHeader
    /\ [][C7_EarlyItemRowStep]_vars
    /\ [](\A k \in 1..Len(categories) : \A i \in 1..Len(categories[k].items) :
            \E r \in 1..Len(rowsSeen) :
                /\ \E h \in HeaderPositions(rowsSeen) : h < r
                /\ IsValidItemRow(rowsSeen[r])
                /\ categories[k].items[i] = ExpectedItem(rowsSeen[r]))

\* a well-formed item row came first, then a header and an item row that
\* was returned
C7_Witness ==
    /\ menuPc = "done"
    /\ Len(rowsSeen) >= 3
    /\ IsValidItemRow(rowsSeen[1])
    /\ IsHeaderRow(rowsSeen[2])
    /\ IsValidItemRow(rowsSeen[3])
    /\ rowsSeen[3] # rowsSeen[1]
    /\ AllItems(categories) = <<ExpectedItem(rowsSeen[3])>>

(***************************************************************************)
(* C8.  An item row whose detail id is missing or not a number is skipped: *)
(* nothing is raised, the extraction goes on, and the valid item rows      *)
(* before and after it are all returned.                                   *)
(***************************************************************************)
C8_NothingRaisedValidRowsKept ==
    /\ menuPc # "raised"
    /\ Len(AllItems(categories)) =
          Cardinality({i \in 1..Len(rowsSeen) :
                          /\ IsValidItemRow(rowsSeen[i])
                          /\ \E h \in HeaderPositions(rowsSeen) : h < i})

C8_BadIdRowStep ==
    (IsRowStep /\ IsBadIdRow(RowTaken)) =>
        /\ menuPc' = "rows"
        /\ categories' = categories
        /\ current_category' = current_category
        /\ lookupCalls' = lookupCalls

C8_BadDetailIdSkipsRowOnly == []C8_NothingRaisedValidRowsKept /\ [][C8_BadIdRowStep]_vars

\* header, item, a row with a non-numeric id, item: both items returned
C8_Witness ==
    /\ menuPc = "done"
    /\ Len(rowsSeen) = 4
    /\ IsHeaderRow(rowsSeen[1])
    /\ IsValidItemRow(rowsSeen[2])
    /\ IsBadIdRow(rowsSeen[3]) /\ rowsSeen[3].detail # NoValue
    /\ IsValidItemRow(rowsSeen[4])
    /\ Len(categories[1].items) = 2

(***************************************************************************)
(* C9.  find_all returns exactly the nodes of the subtree that pass the    *)
(* tag filter and the predicate, each once, in pre-order; find_first       *)
(* returns the first element of find_all, or None when it is empty.        *)
(***************************************************************************)
Passes(n, tag, pred) ==
    /\ tag = NoTag \/ nodes[n].tag = tag
    /\ pred = NoPredicate \/ ApplyPredicate(pred, nodes[n])

Occurrences(seq, x) == Cardinality({i \in 1..Len(seq) : seq[i] = x})

C10_TreeShape ==
    /\ nodes[1].parent = None
    /\ \A m \in NodeIds : Range(nodes[m].children) \subseteq NodeIds
    /\ \A n \in NodeIds \ {1} :
          /\ nodes[n].parent \in NodeIds \ {n}
          /\ \A m \in NodeIds :
                Occurrences(nodes[m].children, n) =
                    IF m = nodes[n].parent THEN 1 ELSE 0
    /\ \A m \in NodeIds : Occurrences(nodes[m].children, 1) = 0

C10_ParentsFixedChildrenAppended ==
    /\ Len(nodes') >= Len(nodes)
    /\ \A n \in NodeIds :
          /\ nodes'[n].parent = nodes[n].parent
          /\ IsPrefix(nodes[n].children, nodes'[n].children)

C10_NodesFormATree ==
    []C10_TreeShape /\ [][C10_ParentsFixedChildrenAppended]_vars

\* a second child has just been appended to a node
C10_Witness ==
    /\ lastEvent.kind = "start"
    /\ \E n \in NodeIds :
          /\ Len(nodes[n].children) = 2
          /\ nodes[n].children[2] = Len(nodes)

(***************************************************************************)
(* C15.  A self-closing tag, void or not, appends exactly one new node,    *)
(* without children or text, to the element that was on top of the stack,  *)
(* changes no other node, and leaves the stack as it was: what a start tag *)
(* followed at once by an end tag of the same name does.                   *)
(***************************************************************************)
C15_StartEndStep ==
    (lastEvent'.kind = "startend") =>
        LET top == stack[Len(stack)]
            new == Len(nodes) + 1
        IN  /\ stack' = stack
            /\ Len(nodes') = new
            /\ nodes'[new].tag = lastEvent'.tag
            /\ nodes'[new].parent = top
            /\ nodes'[new].children = <<>>
            /\ nodes'[new].text_parts = <<>>
            /\ nodes'[top].children = Append(nodes[top].children, new)
            /\ \A n \in NodeIds :
                  /\ n # top => nodes'[n] = nodes[n]
                  /\ nodes'[n].tag = nodes[n].tag
                  /\ nodes'[n].attrs = nodes[n].attrs
                  /\ nodes'[n].parent = nodes[n].parent
                  /\ nodes'[n].text_parts = nodes[n].text_parts

C15_SelfClosingIsStartThenEnd == [][C15_StartEndStep]_vars

\* <div><span/> : a self-closing non-void tag inside an open element
C15_Witness ==
    /\ lastEvent = Event("startend", "span")
    /\ Len(stack) = 2
    /\ prevStack = stack
    /\ nodes[Len(nodes)].tag = "span"
    /\ nodes[Len(nodes)].parent = stack[2]

(***************************************************************************)
(* C16.  A non-empty text event appends exactly one fragment at the end of *)
(* the text parts of the element on top of the stack and changes nothing   *)
(* else; an empty text event changes nothing at all.                       *)
(***************************************************************************)
C16_DataStep ==
    (lastEvent'.kind = "data") =>
        LET top == stack[Len(stack)]
        IN  /\ stack' = stack
            /\ Len(nodes') = Len(nodes)
            /\ IF dataLog' = dataLog
               THEN nodes' = nodes
               ELSE /\ nodes'[top].text_parts =
                        Append(nodes[top].text_parts, dataLog'[Len(dataLog')].data)
                    /\ \A n \in NodeIds :
                          /\ n # top => nodes'[n] = nodes[n]
                          /\ nodes'[n].tag = nodes[n].tag
                          /\ nodes'[n].attrs = nodes[n].attrs
                          /\ nodes'[n].parent = nodes[n].parent
                          /\ nodes'[n].children = nodes[n].children

C16_TextGoesToTopOfStack == [][C16_DataStep]_vars

\* <div>a<br>b : the second fragment of the open div has just arrived
C16_Witness ==
    /\ lastEvent.kind = "data"
    /\ Len(stack) = 2
    /\ Len(nodes[stack[2]].text_parts) = 2
    /\ nodes[stack[2]].children # <<>>
    /\ dataLog[Len(dataLog)].node = stack[2]

(***************************************************************************)
(* C18.  The stack is never empty and its bottom entry is the document     *)
(* root: no end tag, </document> included, removes the root.               *)
(***************************************************************************)
C18_RootStaysOnStack ==
    /\ Len(stack) >= 1
    /\ stack[1] = 1
    /\ nodes[1].tag = "document"
    /\ nodes[1].parent = None

\* <div></document> : the end tag naming the root left the stack alone
C18_Witness ==
    /\ lastEvent = Event("end", "document")
    /\ stack = prevStack
    /\ Len(stack) = 2

(***************************************************************************)
(* C11.  Two parse_html calls fed the same events return trees that are    *)
(* equal node for node, whatever calls were made before or between them:   *)
(* a returned tree equals the kept tree of any earlier call that was fed   *)
(* the same events, and every call starts from a root of its own with      *)
(* nothing attached.                                                       *)
(***************************************************************************)
C11_SameEventsSameTree ==
    /\ (parsePc = "returned" /\ hasRef /\ fed = refEvents) => nodes = refTree
    /\ (parsePc = "feeding" /\ fed = <<>>) =>
          /\ nodes = <<NewNode("document", AttrsDict(<<>>), None)>>
          /\ stack = <<1>>

\* a later call returned after being fed what the kept call was fed, and
\* the input built more than the root
C11_Witness ==
    /\ parsePc = "returned"
    /\ hasRef
    /\ fed = refEvents
    /\ sinceRef = 2
    /\ Len(fed) = 3
    /\ Len(refTree) >= 2
    /\ refTree[2].text_parts # <<>>

(***************************************************************************)
(* C12.  text, class_list, iter, find_all and find_first are read-only: a  *)
(* query leaves every node's tag, attributes, parent, children and text    *)
(* fragments, and the stack, as they were, and a query made again, after   *)
(* any queries in between, returns what it returned before.                *)
(***************************************************************************)
C12_QueryStep ==
    (parsePc = "returned" /\ parsePc' = "returned") =>
        /\ nodes' = nodes
        /\ stack' = stack
        /\ (refQuery.kind # "none" /\ lastQuery' = refQuery) => lastResult' = refResult

C12_QueriesAreReadOnly == [][C12_QueryStep]_vars

\* <div class="a,b">a<br/> : text() of the root asked again after two other
\* queries, with the same answer
C12_Witness ==
    /\ parsePc = "returned"
    /\ refQuery = [kind |-> "text", node |-> 1]
    /\ lastQuery = refQuery
    /\ askedSince = 2
    /\ lastResult = <<"a">>
    /\ refResult = <<"a">>
    /\ Len(nodes) = 3

(***************************************************************************)
(* C13.  On a fragment without an element of id "nutritionLabel", parse    *)
(* returns the empty record, with no servings, serving size, calories,     *)
(* nutrient rows or ingredients, and does not raise, whatever else the     *)
(* fragment holds.                                                         *)
(***************************************************************************)
HasLabelContainer ==
    \E n \in NodeIds :
        "id" \in DOMAIN nodes[n].attrs /\ nodes[n].attrs["id"] = <<"nutritionLabel">>

C13_NoLabelEmptyRecord ==
    (labelPc # "idle" /\ ~HasLabelContainer) =>
        /\ labelPc = "returned"
        /\ DOMAIN labelResult = {}
        /\ nutrients = <<>>

\* a fragment with the servings, calories and ingredients blocks and two
\* nutrient rows, but no label container
C13_Witness ==
    /\ labelPc = "returned"
    /\ ~HasLabelContainer
    /\ \E n \in NodeIds : nodes[n].tag = "table"
    /\ Cardinality({n \in NodeIds : ApplyPredicate("nutrient_row", nodes[n])}) = 2
    /\ DOMAIN labelResult = {}

(***************************************************************************)
(* C17.  Inside a nutrition label every descendant div carrying a          *)
(* nutrient-row class token yields one entry of the nutrients sequence, in *)
(* document order; a missing amount or right block shows as an empty field *)
(* of the entry.                                                           *)
(***************************************************************************)
\* the nutrient-row divs of the label, and the k-th of them in document order
NutrientRowDivs ==
    {n \in NodeIds :
        /\ nodes[n].tag = "div"
        /\ Range(ClassListOf(nodes[n])) \cap NutrientRowClasses # {}
        /\ \E c \in NodeIds : /\ "id" \in DOMAIN nodes[c].attrs
                               /\ nodes[c].attrs["id"] = <<"nutritionLabel">>
                               /\ IsAncestorOrSelf(c, n)}

KthRowDiv(k) ==
    CHOOSE n \in NutrientRowDivs :
        Cardinality({m \in NutrientRowDivs : DocBefore(m, n)}) = k - 1

HasBlock(row, token) ==
    \E b \in Subtree(row) : token \in Range(ClassListOf(nodes[b]))

C17_EveryRowYieldsEntry ==
    (labelPc = "returned" /\ HasLabelContainer) =>
        /\ Len(labelResult.nutrients) = Cardinality(NutrientRowDivs)
        /\ \A k \in 1..Len(labelResult.nutrients) :
              ~HasBlock(KthRowDiv(k), "inline-div-right") =>
                  labelResult.nutrients[k].daily_value = <<>>

(***************************************************************************)
(* C14.  normalize_label is idempotent: normalizing a normalized value     *)
(* gives that value again.  A normalized value holds no precomposed or     *)
(* compatibility character, no combining mark and no upper-case letter,    *)
(* and neither starts nor ends with a space.                               *)
(***************************************************************************)
C14_NormalizeIdempotent ==
    /\ normPc = "twice" => normTwice = normOnce
    /\ normPc \in {"once", "twice"} =>
          /\ \A i \in 1..Len(normOnce) : normOnce[i] \in {"a", "e", "f", "i", " "}
          /\ normOnce # <<>> => normOnce[1] # " " /\ normOnce[Len(normOnce)] # " "

\* " É´" : a space, an accented capital and a further combining mark
\* normalize to "e", and so does "e"
C14_Witness ==
    /\ normPc = "twice"
    /\ normInput = <<"nbsp", "E_acute", "acute">>
    /\ normOnce = <<"e">>
    /\ normTwice = <<"e">>

(***************************************************************************)
(* C19.  Once a request for a detail id has completed, a later call of     *)
(* fetch_nutrition for that id makes no request and no delay and returns   *)
(* the very record the first one stored, the empty record included; the    *)
(* cache only grows and no entry of it is ever replaced.                   *)
(***************************************************************************)
C19_FetchStep ==
    /\ \A k \in DOMAIN nutrition_cache :
          /\ k \in DOMAIN nutrition_cache'
          /\ nutrition_cache'[k] = nutrition_cache[k]
    /\ \A k \in DOMAIN nutrition_cache :
          lastFetch'.detail_id = k =>
              /\ requests' = requests
              /\ sleeps' = sleeps
              /\ parses' = parses
              /\ ~lastFetch'.raised
              /\ lastFetch'.result = nutrition_cache[k]

C19_CachedIdsAreNotFetchedAgain ==
    /\ [](parses = Cardinality(DOMAIN nutrition_cache))
    /\ [][C19_FetchStep]_vars

\* an empty record was stored for an id after a failed request, and a
\* later call for the id returned it, when another id had been fetched since
C19_Witness ==
    /\ DOMAIN nutrition_cache = {1, 2}
    /\ nutrition_cache[1] = [obj |-> 1, value |-> <<>>]
    /\ nutrition_cache[2].obj = 2
    /\ requests[1] = 2
    /\ lastFetch = [detail_id |-> 1, raised |-> FALSE, result |-> nutrition_cache[1]]

(***************************************************************************)
(* C20, as stated.  While a unit is processed, a meal response whose       *)
(* fingerprint equals that of the unit's All Meals panel, or of an earlier *)
(* meal response of the unit, adds no meal section.                        *)
(***************************************************************************)
IsMealStep == mealIdx' = mealIdx + 1

\* the fingerprints of the panels the unit has answered with so far
ResponseHashes ==
    {PanelHash(h) : h \in (({unitPanel} \cup Range(mealHtmls)) \ {NoValue})}

C20_RepeatedResponseStep ==
    IsMealStep =>
        LET meal_html == mealHtmls'[Len(mealHtmls')]
        IN  (meal_html # NoValue /\ PanelHash(meal_html) \in ResponseHashes) =>
                meal_sections' = meal_sections

C20_RepeatedResponseSkipped == [][C20_RepeatedResponseStep]_vars

(***************************************************************************)
(* C20, amended.  While a unit is processed, its panels are parsed and     *)
(* stored at most once per fingerprint: a meal response whose fingerprint  *)
(* equals that of a panel already stored for the unit (the All Meals panel *)
(* when it held a category header row, or an earlier meal response that    *)
(* was stored) adds no meal section, one that holds a category header row  *)
(* and has a new fingerprint adds one, and the seen fingerprints are those *)
(* of the sections of the unit: the set starts empty for every unit.       *)
(***************************************************************************)
SectionHashes(sections) == {PanelHash(sections[i].html) : i \in 1..Len(sections)}

C20_SeenAreTheUnitsSections ==
    /\ seen_hashes = SectionHashes(meal_sections)
    /\ \A i, j \in 1..Len(meal_sections) :
          PanelHash(meal_sections[i].html) = PanelHash(meal_sections[j].html) => i = j

C20_ParsedPanelStep ==
    IsMealStep =>
        LET meal_html == mealHtmls'[Len(mealHtmls')]
        IN  IF HasGroupRow(meal_html) /\ PanelHash(meal_html) \notin SectionHashes(meal_sections)
            THEN meal_sections' =
                    Append(meal_sections, [label |-> mealIdx, html |-> meal_html])
            ELSE meal_sections' = meal_sections

C20_ParsedOncePerFingerprint ==
    /\ []C20_SeenAreTheUnitsSections
    /\ [][C20_ParsedPanelStep]_vars

\* in the second unit: the All Meals panel was stored, the first meal
\* response had its fingerprint and was skipped, the second was stored
C20_Witness ==
    /\ unitIdx = 2
    /\ Len(aggregated) = 1
    /\ aggregated[1].sections # <<>>
    /\ mealIdx = 3
    /\ unitPanel = <<GroupRowClass>>
    /\ mealHtmls = << <<" ", GroupRowClass>>, <<GroupRowClass, "x">> >>
    /\ Len(meal_sections) = 2
    /\ meal_sections[2].label = 2

(***************************************************************************)
(* C22.  The stack is an ancestor chain: above the root, every entry has   *)
(* the entry below it as its parent and is the last of that entry's        *)
(* children that was pushed (the last one whose tag is not void); no node  *)
(* with a void tag is on the stack, and no node is on it twice.            *)
(***************************************************************************)
\* the children of n that were pushed when they were made, in order
PushedChildren(n) ==
    SelectSeq(nodes[n].children, LAMBDA c : nodes[c].tag \notin VOID_TAGS)

C22_StackIsAncestorChain ==
    /\ \A i \in 2..Len(stack) :
          /\ nodes[stack[i]].parent = stack[i - 1]
          /\ PushedChildren(stack[i - 1]) # <<>>
          /\ PushedChildren(stack[i - 1])[Len(PushedChildren(stack[i - 1]))] = stack[i]
    /\ \A i \in 1..Len(stack) : nodes[stack[i]].tag \notin VOID_TAGS
    /\ \A i, j \in 1..Len(stack) : stack[i] = stack[j] => i = j

\* <div></div><span> : the open span is the second child of the root that
\* was pushed, and the first one is no longer on the stack
C22_Witness ==
    /\ stack = <<1, 3>>
    /\ nodes[1].children = <<2, 3>>
    /\ nodes[2].tag = "div"
    /\ nodes[3].tag = "span"
    /\ lastEvent = Event("start", "span")

(***************************************************************************)
(* C21.  The meal options returned have pairwise distinct, non-negative    *)
(* ids; for each id the option is that of the first link, in document      *)
(* order, that has the id and is not skipped.  A link whose id is missing, *)
(* not a number or negative, or whose label is "show all meals", is        *)
(* skipped: nothing is raised, and its id is not added to the seen ids.    *)
(***************************************************************************)
\* the number a data-mealoid text stands for; the other texts are no numbers
MealOidValue(text) ==
    CASE text = <<"1">> -> 1
      [] text = <<"0", "1">> -> 1
      [] text = <<"2">> -> 2
      [] text = <<"-", "1">> -> 0 - 1

IsMealNumber(text) == text \in {<<"1">>, <<"0", "1">>, <<"2">>, <<"-", "1">>}

IsShowAllLink(link) == link.text[1] = "Show"

\* the links of the input that are not skipped for their id or label
EligibleLink(i) ==
    /\ IsMealNumber(mealInput.links[i].mealoid)
    /\ MealOidValue(mealInput.links[i].mealoid) >= 0
    /\ ~IsShowAllLink(mealInput.links[i])

\* the first eligible link of each id
KeptLink(i) ==
    /\ EligibleLink(i)
    /\ \A j \in 1..(i - 1) :
          EligibleLink(j) => MealOidValue(mealInput.links[j].mealoid) # MealOidValue(mealInput.links[i].mealoid)

KeptBefore(n) == {i \in 1..(n - 1) : KeptLink(i)}

C21_MealOptionsFirstPerId ==
    /\ mealPc # "raised"
    /\ mealPc \in {"links", "returned"} /\ mealInput.found =>
          /\ seen = {MealOidValue(mealInput.links[i].mealoid) : i \in KeptBefore(linkIdx)}
          /\ Len(options) = Cardinality(KeptBefore(linkIdx))
          /\ \A k \in 1..Len(options) :
                \E i \in KeptBefore(linkIdx) :
                    /\ Cardinality(KeptBefore(i)) = k - 1
                    /\ options[k].meal_id = MealOidValue(mealInput.links[i].mealoid)
                    /\ options[k].label = mealInput.links[i].text
          /\ \A k \in 1..Len(options) : options[k].meal_id >= 0
          /\ \A k, l \in 1..Len(options) :
                options[k].meal_id = options[l].meal_id => k = l
    /\ mealPc = "returned" /\ mealInput = NoContainer => options = <<>>

\* a "Show All Meals" link with id 1, then Lunch with id 1, then Dinner
\* with id 01: Lunch is the option of id 1
C21_Witness ==
    /\ mealPc = "returned"
    /\ mealInput.found
    /\ Len(mealInput.links) = 3
    /\ IsShowAllLink(mealInput.links[1]) /\ mealInput.links[1].mealoid = <<"1">>
    /\ mealInput.links[2] = [mealoid |-> <<"1">>, text |-> <<"Lunch">>]
    /\ mealInput.links[3] = [mealoid |-> <<"0", "1">>, text |-> <<"Dinner">>]
    /\ options = <<[label |-> <<"Lunch">>, meal_id |-> 1]>>

====
